---- MODULE Spec2Model ----
(***************************************************************************)
(* Saga orchestrator of src/orquestador/saga_service.py.                   *)
(*                                                                         *)
(* One SagaOrchestrator instance (its dictionary transacciones_exitosas)   *)
(* serves the executions of ejecutar_saga that request threads run on it.  *)
(* Every thread has its own position (pc) and its own locals; the          *)
(* dictionary is the only state the threads share.  The four backend       *)
(* services are the environment: each call draws an HTTP response.         *)
(***************************************************************************)
EXTENDS Integers, Sequences, FiniteSets, TLC

\* src/orquestador/config.py
MAX_RETRIES == 3
RETRY_BASE_DELAY == 1

\* Bounds of the model.
NumHilos == 2
MaxCorridas == 2

Hilos == 1..NumHilos

VARIABLES
    transacciones_exitosas, \* self.transacciones_exitosas: key -> identifier
    corridas,               \* executions of ejecutar_saga started so far
    pc,                     \* position of each thread inside ejecutar_saga
    corrida,                \* the number of the execution a thread is running
    intento,                \* loop variable of _ejecutar_con_retry
    success,                \* local "success" of ejecutar_saga
    intentos,               \* local "intentos" of ejecutar_saga
    producto_info,          \* local payloads of ejecutar_saga
    compra_result,
    pago_result,
    reserva_result,
    servicios,              \* what is left of the list _ejecutar_compensaciones walks
    origen,                 \* the call site of the running _ejecutar_compensaciones
    traza,                  \* history: the steps of the execution (a direct call
                            \* or a whole invocation of the retry controller) and
                            \* its undo calls, in order
    retry_hist,             \* history: the attempts and waits of the invocation of
                            \* _ejecutar_con_retry that runs or has just returned
    resultado               \* what ejecutar_saga handed to its caller

vars == <<transacciones_exitosas, corridas, pc, corrida, intento, success,
          intentos, producto_info, compra_result, pago_result, reserva_result,
          servicios, origen, traza, retry_hist, resultado>>

----------------------------------------------------------------------------
(* Payloads: what a client method returns (Optional[Dict]).                *)
(*   none     - None                                                       *)
(*   vacio    - a falsy JSON body ({}), returned on status 200             *)
(*   sinclave - a truthy JSON body that lacks the key the saga reads       *)
(*   ok       - a body carrying the key, with its identifier               *)

None == [kind |-> "none", id |-> 0]

Payload(body, ident) ==
    IF body = "ok" THEN [kind |-> "ok", id |-> ident]
    ELSE [kind |-> body, id |-> 0]

\* Python truthiness of a payload ("if resultado:", "if not producto_info:").
Truthy(p) == p.kind \in {"sinclave", "ok"}

\* p['compra_id'] and the like raise KeyError when the key is missing.
TieneClave(p) == p.kind = "ok"

\* Identifiers the backend services hand out: one per execution and service.
CompraId(c) == 100 + c
PagoId(c) == 200 + c
ReservaId(c) == 300 + c
ProductoId(c) == 400 + c

\* HTTP responses of the backends.  Status 0 stands for a transport error or
\* timeout (requests raises; there is no body), 409 for any non-200 answer;
\* a non-200 answer carries an error document, which is a truthy body.
Respuestas ==
    { [status |-> 200, body |-> b] : b \in {"ok", "vacio", "sinclave"} }
    \cup { [status |-> 409, body |-> "sinclave"], [status |-> 0, body |-> "vacio"] }

RespuestasCatalogo == Respuestas \cup { [status |-> 404, body |-> "sinclave"] }

RespuestasCompensacion == { [status |-> s, body |-> "vacio"] : s \in {200, 409, 0} }

----------------------------------------------------------------------------
(* The client methods: an HTTP response becomes an Optional[Dict].         *)

\* Faulty variant: the body is returned whatever the status.
ValidarProductoEnCatalogo_SinEstado(r, c) == Payload(r.body, ProductoId(c))

\* _validar_producto_en_catalogo: the body on 200, None on 404, on any other
\* status and on an exception.
ValidarProductoEnCatalogo(r, c) ==
    IF r.status = 200 THEN Payload(r.body, ProductoId(c)) ELSE None

\* _llamar_compras, _llamar_pagos, _llamar_inventario: the body on 200, None
\* on any other status and on an exception.
LlamarCompras(r, c) ==
    IF r.status = 200 THEN Payload(r.body, CompraId(c)) ELSE None

LlamarPagos(r, c) ==
    IF r.status = 200 THEN Payload(r.body, PagoId(c)) ELSE None

LlamarInventario(r, c) ==
    IF r.status = 200 THEN Payload(r.body, ReservaId(c)) ELSE None

----------------------------------------------------------------------------
(* _ejecutar_con_retry, one iteration of its loop.                         *)

\* Faulty variant: the comparison off by one, a retry too many.
QuedanIntentos_Inclusive(i) == i <= MAX_RETRIES

\* "if intento < MAX_RETRIES": a wait follows the failed attempt.
QuedanIntentos(i) == i < MAX_RETRIES

\* Faulty variant: the exponent not shifted, waits of 2, 4, ...
TiempoEspera_SinDesfase(i) == RETRY_BASE_DELAY * (2 ^ i)

\* tiempo_espera = RETRY_BASE_DELAY * (2 ** (intento - 1))
TiempoEspera(i) == RETRY_BASE_DELAY * (2 ^ (i - 1))

\* Faulty variant: the attempts counted from zero in what is returned.
EjecutarConRetry_CuentaDesdeCero(i, res) ==
    IF Truthy(res)
    THEN [fin |-> TRUE, success |-> TRUE, response |-> res, intentos |-> i - 1,
          espera |-> 0]
    ELSE IF i < MAX_RETRIES
    THEN [fin |-> FALSE, success |-> FALSE, response |-> None, intentos |-> i,
          espera |-> RETRY_BASE_DELAY * (2 ^ (i - 1))]
    ELSE [fin |-> TRUE, success |-> FALSE, response |-> None,
          intentos |-> MAX_RETRIES - 1, espera |-> 0]

\* What iteration i does with the operation's result: return (fin), or wait
\* and go on to iteration i + 1.
EjecutarConRetry(i, res) ==
    IF Truthy(res)
    THEN [fin |-> TRUE, success |-> TRUE, response |-> res, intentos |-> i,
          espera |-> 0]
    ELSE IF QuedanIntentos(i)
    THEN [fin |-> FALSE, success |-> FALSE, response |-> None, intentos |-> i,
          espera |-> TiempoEspera(i)]
    ELSE [fin |-> TRUE, success |-> FALSE, response |-> None,
          intentos |-> MAX_RETRIES, espera |-> 0]

----------------------------------------------------------------------------
(* History entries and results.                                            *)

\* A forward step in traza: the operation, the identifier sent, whether the
\* backend's (last) answer had status 200, and what the step came back with
\* (falsy, a truthy payload without its key, a payload with it).
Llamada(op, arg, r, res) ==
    [op |-> op, arg |-> arg, st200 |-> (r.status = 200),
     res |-> IF Truthy(res) THEN res.kind ELSE "falsy"]

\* An undo call in traza: the operation, the identifier sent, the answer.
Deshacer(op, arg, r) ==
    [op |-> op, arg |-> arg, st200 |-> (r.status = 200),
     res |-> IF r.status = 200 THEN "ok" ELSE "falsy"]

\* An attempt in retry_hist: the operation and identifier sent, the attempt's
\* index, whether the backend answered 200, and what the operation returned.
Intento(op, arg, i, r, res) ==
    [tipo |-> "intento", op |-> op, arg |-> arg, n |-> i,
     st200 |-> (r.status = 200), res |-> res.kind, id |-> res.id]

\* A wait (time.sleep) of the retry loop in retry_hist.
Espera(op, t) ==
    [tipo |-> "espera", op |-> op, arg |-> 0, n |-> t, st200 |-> FALSE,
     res |-> "none", id |-> 0]

\* The entries one iteration of the retry loop adds: the attempt, then the wait.
EntradasRetry(op, arg, i, r, res, paso) ==
    IF paso.espera > 0
    THEN <<Intento(op, arg, i, r, res), Espera(op, paso.espera)>>
    ELSE <<Intento(op, arg, i, r, res)>>

SinDatos == [compra_id |-> 0, pago_id |-> 0, reserva_id |-> 0]

SinResultado ==
    [success |-> FALSE, status |-> 0, intentos |-> 0, datos |-> SinDatos,
     escapa |-> FALSE]

\* ({"success": False, ...}, status), with "intentos_realizados" where given.
Fallo(status, n) == [SinResultado EXCEPT !.status = status, !.intentos = n]

\* Faulty variant: the purchase's and the payment's identifiers exchanged.
Exito_Cruzado(c, p, v) ==
    [success |-> TRUE, status |-> 200, intentos |-> 0,
     datos |-> [compra_id |-> p, pago_id |-> c, reserva_id |-> v],
     escapa |-> FALSE]

\* ({"success": True, "datos": {...}}, 200)
Exito(c, p, v) ==
    [success |-> TRUE, status |-> 200, intentos |-> 0,
     datos |-> [compra_id |-> c, pago_id |-> p, reserva_id |-> v],
     escapa |-> FALSE]

\* An exception that leaves ejecutar_saga: the caller gets no result.
Excepcion == [SinResultado EXCEPT !.escapa = TRUE]

\* The status codes of the return statements.
StatusNoEncontrado == 404
StatusConflicto == 409
StatusErrorInterno == 500

\* Faulty variant: the except clause raises again after compensating.
ResultadoTrasCompensar_Relanza(sitio, n) ==
    IF sitio = "pagos" THEN Fallo(StatusConflicto, n)
    ELSE IF sitio = "inventario" THEN Fallo(StatusConflicto, 0)
    ELSE Excepcion

\* The return statement that follows a call of _ejecutar_compensaciones:
\* after the payment step gave up (with intentos_realizados), after the
\* inventory step failed, and in the except clause.
ResultadoTrasCompensar(sitio, n) ==
    IF sitio = "pagos" THEN Fallo(StatusConflicto, n)
    ELSE IF sitio = "inventario" THEN Fallo(StatusConflicto, 0)
    ELSE Fallo(StatusErrorInterno, 0)

\* Faulty variants of the lists: forward order, the purchase forgotten, the
\* payment forgotten.
CompensarTrasInventario_OrdenDirecto == <<"compras", "pagos">>
CompensarTrasInventario_SoloPagos == <<"pagos">>
CompensarTrasExcepcion_SoloCompras == <<"compras">>

\* The lists handed to _ejecutar_compensaciones at its three call sites.
CompensarTrasPagos == <<"compras">>
CompensarTrasInventario == <<"pagos", "compras">>
CompensarTrasExcepcion == <<"pagos", "compras">>

\* Faulty variant: every identifier stored under the payment's key.
Registrar_ClaveDePago(tx, k, v) ==
    [x \in (DOMAIN tx) \cup {"pago_id"} |-> IF x = "pago_id" THEN v ELSE tx[x]]

\* self.transacciones_exitosas[k] = v
Registrar(tx, k, v) ==
    [x \in (DOMAIN tx) \cup {k} |-> IF x = k THEN v ELSE tx[x]]

\* self.transacciones_exitosas = {}
Vacio == [x \in {} |-> 0]

\* Faulty variant: the dictionary of the previous execution is kept.
Reiniciar_Omitido(tx) == tx

\* Line 85, "# Reset": the dictionary an execution starts with.
Reiniciar(tx) == Vacio

\* Faulty variant: a failed undo call ends the loop.
RestoTrasDeshacer_Aborta(lista, r) == IF r.status = 200 THEN Tail(lista) ELSE <<>>

\* The services left after an undo call: _compensar_pago and _compensar_compra
\* return nothing and raise nothing, whatever the answer, and the for loop
\* goes on to the next service.
RestoTrasDeshacer(lista, r) == Tail(lista)

\* Faulty variant: the payment is charged without the purchase's identifier.
CompraDelPago_Ausente(compra) == 0

\* Line 131: the third argument of _llamar_pagos, compra_result['compra_id'].
CompraDelPago(compra) == compra.id

\* Faulty variant: the purchase's key read for every service.
Clave_Fija(servicio) == "compra_id"

\* The key _ejecutar_compensaciones reads for a service name.
Clave(servicio) == IF servicio = "pagos" THEN "pago_id" ELSE "compra_id"

\* The two conditions of the loop body of _ejecutar_compensaciones.
DebeCompensar(servicio, tx) ==
    \/ servicio = "pagos" /\ "pago_id" \in DOMAIN tx
    \/ servicio = "compras" /\ "compra_id" \in DOMAIN tx

----------------------------------------------------------------------------
(* State after SagaOrchestrator() and before any request.                  *)

Init ==
    /\ transacciones_exitosas = Vacio
    /\ corridas = 0
    /\ pc = [h \in Hilos |-> "idle"]
    /\ corrida = [h \in Hilos |-> 0]
    /\ intento = [h \in Hilos |-> 0]
    /\ success = [h \in Hilos |-> FALSE]
    /\ intentos = [h \in Hilos |-> 0]
    /\ producto_info = [h \in Hilos |-> None]
    /\ compra_result = [h \in Hilos |-> None]
    /\ pago_result = [h \in Hilos |-> None]
    /\ reserva_result = [h \in Hilos |-> None]
    /\ servicios = [h \in Hilos |-> <<>>]
    /\ origen = [h \in Hilos |-> "ninguno"]
    /\ traza = [h \in Hilos |-> <<>>]
    /\ retry_hist = [h \in Hilos |-> <<>>]
    /\ resultado = [h \in Hilos |-> SinResultado]

----------------------------------------------------------------------------
(* Building blocks of the actions.                                         *)

\* A return statement of ejecutar_saga.
Retornar(h, res) ==
    /\ pc' = [pc EXCEPT ![h] = "done"]
    /\ resultado' = [resultado EXCEPT ![h] = res]

\* A call of self._ejecutar_compensaciones(lista) from the given site.
Compensar(h, lista, sitio) ==
    /\ pc' = [pc EXCEPT ![h] = "comp"]
    /\ servicios' = [servicios EXCEPT ![h] = lista]
    /\ origen' = [origen EXCEPT ![h] = sitio]

\* An exception raised inside the try block: the except clause logs it and
\* calls _ejecutar_compensaciones(['pagos', 'compras']).
Capturar(h) == Compensar(h, CompensarTrasExcepcion, "except")

\* An exception raised inside _ejecutar_compensaciones: caught by the except
\* clause when the call site is inside the try block, and propagated to the
\* caller of ejecutar_saga when the call site is the except clause itself.
ExcepcionEnCompensacion(h) ==
    IF origen[h] # "except"
    THEN /\ Capturar(h)
         /\ UNCHANGED resultado
    ELSE /\ Retornar(h, Excepcion)
         /\ UNCHANGED <<servicios, origen>>

Registra(k, v) ==
    transacciones_exitosas' = Registrar(transacciones_exitosas, k, v)

Anota(h, entradas) == traza' = [traza EXCEPT ![h] = @ \o entradas]

\* An iteration of the retry loop; iteration 1 opens a new invocation.
AnotaRetry(h, entradas) ==
    retry_hist' = [retry_hist EXCEPT
                     ![h] = IF intento[h] = 1 THEN entradas ELSE @ \o entradas]

\* A step outside the retry controller: its last invocation is over.
FueraDeRetry(h) == retry_hist' = [retry_hist EXCEPT ![h] = <<>>]

----------------------------------------------------------------------------
(* ejecutar_saga, lines 84-85: the entry and the reset of the dictionary.  *)

Arranca(h) ==
    /\ pc[h] = "idle"
    /\ corridas < MaxCorridas
    /\ corridas' = corridas + 1
    /\ corrida' = [corrida EXCEPT ![h] = corridas + 1]
    /\ transacciones_exitosas' = Reiniciar(transacciones_exitosas)
    /\ pc' = [pc EXCEPT ![h] = "validar"]
    /\ UNCHANGED <<intento, success, intentos, producto_info, compra_result,
                   pago_result, reserva_result, servicios, origen, traza,
                   retry_hist, resultado>>

\* One request at a time: no other execution is in progress.
Iniciar(h) ==
    /\ \A k \in Hilos : pc[k] = "idle"
    /\ Arranca(h)

\* Requests served by concurrent threads on the same instance.
IniciarConcurrente(h) == Arranca(h)

(* Step 1, lines 88-100.                                                   *)
ValidarProducto(h) ==
    /\ pc[h] = "validar"
    /\ \E r \in RespuestasCatalogo :
         LET info == ValidarProductoEnCatalogo(r, corrida[h]) IN
         /\ producto_info' = [producto_info EXCEPT ![h] = info]
         /\ Anota(h, <<Llamada("catalogo", 0, r, info)>>)
         /\ FueraDeRetry(h)
         /\ IF ~Truthy(info)
            THEN /\ Retornar(h, Fallo(StatusNoEncontrado, 0))
                 /\ UNCHANGED <<servicios, origen, intento>>
            ELSE IF ~TieneClave(info)
            THEN /\ Capturar(h)
                 /\ UNCHANGED <<resultado, intento>>
            ELSE /\ pc' = [pc EXCEPT ![h] = "compras"]
                 /\ intento' = [intento EXCEPT ![h] = 1]
                 /\ UNCHANGED <<servicios, origen, resultado>>
    /\ UNCHANGED <<transacciones_exitosas, corridas, corrida, success, intentos,
                   compra_result, pago_result, reserva_result>>

(* Step 2, lines 102-122: one attempt of _ejecutar_con_retry on            *)
(* _llamar_compras and, when the controller returns, what follows it.      *)
CrearCompra(h) ==
    /\ pc[h] = "compras"
    /\ \E r \in Respuestas :
         LET res == LlamarCompras(r, corrida[h])
             paso == EjecutarConRetry(intento[h], res) IN
         /\ AnotaRetry(h, EntradasRetry("compras", 0, intento[h], r, res, paso))
         /\ IF ~paso.fin
            THEN /\ intento' = [intento EXCEPT ![h] = @ + 1]
                 /\ UNCHANGED <<pc, success, intentos, compra_result,
                                transacciones_exitosas, servicios, origen,
                                resultado, traza>>
            ELSE /\ Anota(h, <<Llamada("compras", 0, r, paso.response)>>)
                 /\ success' = [success EXCEPT ![h] = paso.success]
                 /\ compra_result' = [compra_result EXCEPT ![h] = paso.response]
                 /\ intentos' = [intentos EXCEPT ![h] = paso.intentos]
                 /\ IF ~paso.success
                    THEN /\ Retornar(h, Fallo(StatusConflicto, paso.intentos))
                         /\ UNCHANGED <<transacciones_exitosas, servicios,
                                        origen, intento>>
                    ELSE IF ~TieneClave(paso.response)
                    THEN /\ Capturar(h)
                         /\ UNCHANGED <<transacciones_exitosas, resultado,
                                        intento>>
                    ELSE /\ Registra("compra_id", paso.response.id)
                         /\ pc' = [pc EXCEPT ![h] = "pagos"]
                         /\ intento' = [intento EXCEPT ![h] = 1]
                         /\ UNCHANGED <<servicios, origen, resultado>>
    /\ UNCHANGED <<corridas, corrida, producto_info, pago_result,
                   reserva_result>>

(* Step 3, lines 124-146: one attempt of _ejecutar_con_retry on            *)
(* _llamar_pagos, called with compra_result['compra_id'].                  *)
ProcesarPago(h) ==
    /\ pc[h] = "pagos"
    /\ \E r \in Respuestas :
         LET res == LlamarPagos(r, corrida[h])
             paso == EjecutarConRetry(intento[h], res) IN
         /\ AnotaRetry(h, EntradasRetry("pagos", CompraDelPago(compra_result[h]),
                                         intento[h], r, res, paso))
         /\ IF ~paso.fin
            THEN /\ intento' = [intento EXCEPT ![h] = @ + 1]
                 /\ UNCHANGED <<pc, success, intentos, pago_result,
                                transacciones_exitosas, servicios, origen,
                                resultado, traza>>
            ELSE /\ Anota(h, <<Llamada("pagos", CompraDelPago(compra_result[h]),
                                       r, paso.response)>>)
                 /\ success' = [success EXCEPT ![h] = paso.success]
                 /\ pago_result' = [pago_result EXCEPT ![h] = paso.response]
                 /\ intentos' = [intentos EXCEPT ![h] = paso.intentos]
                 /\ IF ~paso.success
                    THEN /\ Compensar(h, CompensarTrasPagos, "pagos")
                         /\ UNCHANGED <<transacciones_exitosas, resultado,
                                        intento>>
                    ELSE IF ~TieneClave(paso.response)
                    THEN /\ Capturar(h)
                         /\ UNCHANGED <<transacciones_exitosas, resultado,
                                        intento>>
                    ELSE /\ Registra("pago_id", paso.response.id)
                         /\ pc' = [pc EXCEPT ![h] = "inventario"]
                         /\ UNCHANGED <<servicios, origen, resultado, intento>>
    /\ UNCHANGED <<corridas, corrida, producto_info, compra_result,
                   reserva_result>>

(* Step 4, lines 148-174: the single call of _llamar_inventario.           *)
ReservarInventario(h) ==
    /\ pc[h] = "inventario"
    /\ \E r \in Respuestas :
         LET res == LlamarInventario(r, corrida[h]) IN
         /\ reserva_result' = [reserva_result EXCEPT ![h] = res]
         /\ Anota(h, <<Llamada("inventario", 0, r, res)>>)
         /\ FueraDeRetry(h)
         /\ IF ~Truthy(res)
            THEN /\ Compensar(h, CompensarTrasInventario, "inventario")
                 /\ UNCHANGED <<transacciones_exitosas, resultado>>
            ELSE IF ~TieneClave(res)
            THEN /\ Capturar(h)
                 /\ UNCHANGED <<transacciones_exitosas, resultado>>
            ELSE /\ Registra("reserva_id", res.id)
                 /\ Retornar(h, Exito(compra_result[h].id, pago_result[h].id,
                                      res.id))
                 /\ UNCHANGED <<servicios, origen>>
    /\ UNCHANGED <<corridas, corrida, intento, success, intentos,
                   producto_info, compra_result, pago_result>>

----------------------------------------------------------------------------
(* _ejecutar_compensaciones, lines 264-273, and the return that follows    *)
(* the call.  The loop reads the dictionary three times for a service: the *)
(* "in" test, the log line and the argument of the undo call.              *)

\* The loop head with services left: the "in" test of the next service.
EvaluarCompensacion(h) ==
    /\ pc[h] = "comp"
    /\ servicios[h] # <<>>
    /\ IF DebeCompensar(Head(servicios[h]), transacciones_exitosas)
       THEN /\ pc' = [pc EXCEPT ![h] = "comp_log"]
            /\ UNCHANGED servicios
       ELSE /\ servicios' = [servicios EXCEPT ![h] = Tail(@)]
            /\ UNCHANGED pc
    /\ FueraDeRetry(h)
    /\ UNCHANGED <<transacciones_exitosas, corridas, corrida, intento, success,
                   intentos, producto_info, compra_result, pago_result,
                   reserva_result, origen, traza, resultado>>

\* The log line: self.transacciones_exitosas[key] is read for the message.
AnunciarCompensacion(h) ==
    /\ pc[h] = "comp_log"
    /\ IF Clave(Head(servicios[h])) \in DOMAIN transacciones_exitosas
       THEN /\ pc' = [pc EXCEPT ![h] = "comp_call"]
            /\ UNCHANGED <<servicios, origen, resultado>>
       ELSE ExcepcionEnCompensacion(h)
    /\ FueraDeRetry(h)
    /\ UNCHANGED <<transacciones_exitosas, corridas, corrida, intento, success,
                   intentos, producto_info, compra_result, pago_result,
                   reserva_result, traza>>

\* _compensar_pago / _compensar_compra with the identifier read now; the
\* response is logged when it is 200 and swallowed otherwise.
LlamarCompensacion(h) ==
    /\ pc[h] = "comp_call"
    /\ LET s == Head(servicios[h]) IN
       IF Clave(s) \in DOMAIN transacciones_exitosas
       THEN \E r \in RespuestasCompensacion :
              /\ Anota(h, <<Deshacer("comp_" \o s,
                                     transacciones_exitosas[Clave(s)], r)>>)
              /\ servicios' = [servicios EXCEPT ![h] = RestoTrasDeshacer(@, r)]
              /\ pc' = [pc EXCEPT ![h] = "comp"]
              /\ UNCHANGED <<origen, resultado>>
       ELSE /\ ExcepcionEnCompensacion(h)
            /\ UNCHANGED traza
    /\ FueraDeRetry(h)
    /\ UNCHANGED <<transacciones_exitosas, corridas, corrida, intento, success,
                   intentos, producto_info, compra_result, pago_result,
                   reserva_result>>

\* The list is exhausted: _ejecutar_compensaciones returns and ejecutar_saga
\* runs the return statement after the call (lines 138, 155, 179).
TerminarCompensacion(h) ==
    /\ pc[h] = "comp"
    /\ servicios[h] = <<>>
    /\ Retornar(h, ResultadoTrasCompensar(origen[h], intentos[h]))
    /\ FueraDeRetry(h)
    /\ UNCHANGED <<transacciones_exitosas, corridas, corrida, intento, success,
                   intentos, producto_info, compra_result, pago_result,
                   reserva_result, servicios, origen, traza>>

\* The caller has the result; the thread's frame of ejecutar_saga is gone.
Liberar(h) ==
    /\ pc[h] = "done"
    /\ pc' = [pc EXCEPT ![h] = "idle"]
    /\ corrida' = [corrida EXCEPT ![h] = 0]
    /\ intento' = [intento EXCEPT ![h] = 0]
    /\ success' = [success EXCEPT ![h] = FALSE]
    /\ intentos' = [intentos EXCEPT ![h] = 0]
    /\ producto_info' = [producto_info EXCEPT ![h] = None]
    /\ compra_result' = [compra_result EXCEPT ![h] = None]
    /\ pago_result' = [pago_result EXCEPT ![h] = None]
    /\ reserva_result' = [reserva_result EXCEPT ![h] = None]
    /\ servicios' = [servicios EXCEPT ![h] = <<>>]
    /\ origen' = [origen EXCEPT ![h] = "ninguno"]
    /\ traza' = [traza EXCEPT ![h] = <<>>]
    /\ FueraDeRetry(h)
    /\ resultado' = [resultado EXCEPT ![h] = SinResultado]
    /\ UNCHANGED <<transacciones_exitosas, corridas>>

----------------------------------------------------------------------------
\* The steps of a running execution.
Paso(h) ==
    \/ ValidarProducto(h)
    \/ CrearCompra(h)
    \/ ProcesarPago(h)
    \/ ReservarInventario(h)
    \/ EvaluarCompensacion(h)
    \/ AnunciarCompensacion(h)
    \/ LlamarCompensacion(h)
    \/ TerminarCompensacion(h)
    \/ Liberar(h)

\* Executions one after another on the instance.
Next == \E h \in Hilos : Iniciar(h) \/ Paso(h)

Spec == Init /\ [][Next]_vars

\* _ejecutar_compensaciones called by thread 1 with any list of service names
\* on any content of the dictionary; executions follow it.
MaxLista == 2

NombresDeServicio == {"pagos", "compras", "inventario"}

Listas == UNION { [1..n -> NombresDeServicio] : n \in 0..MaxLista }

Progresos ==
    UNION { [claves -> {CompraId(0), PagoId(0)}] :
              claves \in SUBSET {"compra_id", "pago_id"} }

InitCompensaciones ==
    /\ transacciones_exitosas \in Progresos
    /\ corridas = 0
    /\ pc = [h \in Hilos |-> IF h = 1 THEN "comp" ELSE "idle"]
    /\ corrida = [h \in Hilos |-> 0]
    /\ intento = [h \in Hilos |-> 0]
    /\ success = [h \in Hilos |-> FALSE]
    /\ intentos = [h \in Hilos |-> 0]
    /\ producto_info = [h \in Hilos |-> None]
    /\ compra_result = [h \in Hilos |-> None]
    /\ pago_result = [h \in Hilos |-> None]
    /\ reserva_result = [h \in Hilos |-> None]
    /\ servicios \in { [h \in Hilos |-> IF h = 1 THEN l ELSE <<>>] : l \in Listas }
    /\ origen \in { [h \in Hilos |-> IF h = 1 THEN o ELSE "ninguno"] :
                      o \in {"pagos", "inventario", "except"} }
    /\ traza = [h \in Hilos |-> <<>>]
    /\ retry_hist = [h \in Hilos |-> <<>>]
    /\ resultado = [h \in Hilos |-> SinResultado]

SpecCompensaciones == InitCompensaciones /\ [][Next]_vars

\* Executions of concurrent request threads on the instance.
NextConcurrente == \E h \in Hilos : IniciarConcurrente(h) \/ Paso(h)

SpecConcurrente == Init /\ [][NextConcurrente]_vars

\* Every external call returns within its timeout and a started thread keeps
\* running: the steps of an execution are taken.
SpecVivo == Spec /\ \A h \in Hilos : WF_vars(Paso(h))

----------------------------------------------------------------------------
(* Reading the histories.                                                  *)

EsDeshacer(e) == e.op \in {"comp_pagos", "comp_compras"}

\* The undo calls of the execution of thread h, in the order issued, as
\* <<operation, identifier>>.
Deshechos(h) ==
    LET us == SelectSeq(traza[h], EsDeshacer) IN
    [i \in 1..Len(us) |-> <<us[i].op, us[i].arg>>]

\* What the step op of the execution of thread h came back with: "ok" is
\* Success (a payload carrying the step's identifier), "falsy" is Failure,
\* "sinclave" a 200 answer without the identifier, "no" a step not reached.
Reporte(h, op) ==
    IF \E i \in 1..Len(traza[h]) : traza[h][i].op = op
    THEN LET i == CHOOSE j \in 1..Len(traza[h]) : traza[h][j].op = op
         IN traza[h][i].res
    ELSE "no"

\* The undo calls owed when forward progress stops: the payment's refund,
\* then the purchase's cancellation, for the steps that reported Success,
\* with the identifiers the backends gave this execution.
Debidos(h) ==
    (IF Reporte(h, "pagos") = "ok"
     THEN <<<<"comp_pagos", PagoId(corrida[h])>>>> ELSE <<>>)
    \o (IF Reporte(h, "compras") = "ok"
        THEN <<<<"comp_compras", CompraId(corrida[h])>>>> ELSE <<>>)

EsPrefijo(a, b) == Len(a) <= Len(b) /\ a = SubSeq(b, 1, Len(a))

Terminado(h) == pc[h] = "done"

----------------------------------------------------------------------------
\* C1: at whichever step forward progress stops, the undo calls issued are
\* exactly those of the steps that reported Success before it, the refund of
\* the payment before the cancellation of the purchase; no undo call is ever
\* issued for the step that stopped or for a later one, and none at all while
\* the execution still advances or when it succeeds.
C1_CompensaExactoEnReversa ==
    \A h \in Hilos :
        /\ EsPrefijo(Deshechos(h), Debidos(h))
        /\ pc[h] \in {"validar", "compras", "pagos", "inventario"}
             => Deshechos(h) = <<>>
        /\ Terminado(h) =>
             Deshechos(h) = IF resultado[h].success THEN <<>> ELSE Debidos(h)

\* An execution stopped at the inventory step, after its purchase and its
\* payment, has returned with two undo calls made.
C1_Witness ==
    \E h \in Hilos :
        /\ Terminado(h)
        /\ Reporte(h, "pagos") = "ok"
        /\ Reporte(h, "inventario") = "falsy"
        /\ Len(Deshechos(h)) = 2

----------------------------------------------------------------------------
\* C2: when create-purchase succeeded with purchaseId c, charge-payment
\* succeeded with paymentId p and reserve-inventory failed, the execution has
\* called refund-payment(p) first and cancel-purchase(c) second, each once and
\* with those identifiers, before it returns, and it returns success=false
\* with status 409.
C2_InventarioFallaReembolsaYCancela ==
    \A h \in Hilos :
        ( /\ Terminado(h)
          /\ TieneClave(compra_result[h])
          /\ TieneClave(pago_result[h])
          /\ ~Truthy(reserva_result[h])
          /\ Reporte(h, "inventario") = "falsy" )
        => /\ Deshechos(h) = << <<"comp_pagos", pago_result[h].id>>,
                                <<"comp_compras", compra_result[h].id>> >>
           /\ resultado[h].success = FALSE
           /\ resultado[h].status = 409
           /\ ~resultado[h].escapa

\* An execution whose inventory step failed after a purchase and a payment has
\* returned.
C2_Witness ==
    \E h \in Hilos :
        /\ Terminado(h)
        /\ TieneClave(compra_result[h])
        /\ TieneClave(pago_result[h])
        /\ Reporte(h, "inventario") = "falsy"
        /\ resultado[h].status = 409

----------------------------------------------------------------------------
\* C3: every refund-payment or cancel-purchase call an execution issues
\* carries an identifier that a backend returned to that same execution, also
\* when executions interleave on the instance.
C3_CompensaSoloLoPropio ==
    \A h \in Hilos :
        \A i \in 1..Len(traza[h]) :
            EsDeshacer(traza[h][i]) =>
                traza[h][i].arg \in {CompraId(corrida[h]), PagoId(corrida[h])}

----------------------------------------------------------------------------
\* The terminal states of the saga's state machine, read off what the caller
\* received.
Succeeded(h) ==
    /\ ~resultado[h].escapa
    /\ resultado[h].success
    /\ resultado[h].status = 200

Failed(h) ==
    /\ ~resultado[h].escapa
    /\ ~resultado[h].success
    /\ resultado[h].status \in {404, 409, 500}

\* C4: every started execution eventually returns to its caller, in SUCCEEDED
\* or in FAILED and not in both, given that every external call returns.
C4_TerminaEnUnEstadoTerminal ==
    \A h \in Hilos :
        (pc[h] = "validar") ~> (Terminado(h) /\ (Succeeded(h) # Failed(h)))

\* The last execution allowed has returned FAILED after two undo calls.
C4_Witness ==
    \E h \in Hilos :
        /\ Terminado(h)
        /\ corridas = MaxCorridas
        /\ Failed(h)
        /\ Len(Deshechos(h)) = 2

----------------------------------------------------------------------------
\* C5: when the catalog lookup comes back with nothing (404, any other
\* non-200 answer, a transport error, an empty body), the execution returns
\* success=false with status 404 at once: no undo call and no create-purchase,
\* charge-payment or reserve-inventory call is ever issued.
C5_CatalogoFalla404 ==
    \A h \in Hilos :
        ( /\ traza[h] # <<>>
          /\ traza[h][1].op = "catalogo"
          /\ (~traza[h][1].st200 \/ traza[h][1].res = "falsy") )
        => /\ Terminado(h)
           /\ resultado[h].success = FALSE
           /\ resultado[h].status = 404
           /\ ~resultado[h].escapa
           /\ Len(traza[h]) = 1
           /\ retry_hist[h] = <<>>

\* The catalog answered a second execution with a non-200 status, and the
\* execution returned.
C5_Witness ==
    \E h \in Hilos :
        /\ Reporte(h, "catalogo") = "falsy"
        /\ ~traza[h][1].st200
        /\ Terminado(h)
        /\ corrida[h] = 2

----------------------------------------------------------------------------
\* C6: an undo call is issued for a step only if that step's identifier is in
\* the dictionary, and it carries that identifier, whatever list of names
\* _ejecutar_compensaciones was given; a name without a recorded identifier
\* produces no call.
C6_CompensaSoloLoRegistrado ==
    \A h \in Hilos :
        \A i \in 1..Len(traza[h]) :
            LET e == traza[h][i]
                k == IF e.op = "comp_pagos" THEN "pago_id" ELSE "compra_id"
            IN EsDeshacer(e) =>
                 /\ k \in DOMAIN transacciones_exitosas
                 /\ e.arg = transacciones_exitosas[k]

\* The except clause compensated ['pagos', 'compras'] with no payment
\* recorded: the purchase was cancelled and no refund was called.
C6_Witness ==
    \E h \in Hilos :
        /\ Terminado(h)
        /\ origen[h] = "except"
        /\ "pago_id" \notin DOMAIN transacciones_exitosas
        /\ Deshechos(h) = << <<"comp_compras", CompraId(corrida[h])>> >>

----------------------------------------------------------------------------
(* Reading the history of the retry controller.                            *)

EsIntento(e) == e.tipo = "intento"

\* The invocations of the operation by the controller, in order.
Invocaciones(h) == SelectSeq(retry_hist[h], EsIntento)

\* The controller's loop is running (it has not returned).
RetryEnCurso(h) == pc[h] = "compras" \/ (pc[h] = "pagos" /\ intento[h] > 1)

\* The controller has just returned to ejecutar_saga.
RetryRetornado(h) == retry_hist[h] # <<>> /\ ~RetryEnCurso(h)

\* The payload the controller returned, as ejecutar_saga holds it.
RespuestaRetry(h) ==
    IF retry_hist[h][1].op = "compras" THEN compra_result[h] ELSE pago_result[h]

\* C7: the retry controller invokes the operation at most MAX_RETRIES times,
\* numbered 1, 2, ...; it never invokes it again after a Success; it returns
\* (true, the payload of the first Success, its attempt number), and when all
\* MAX_RETRIES attempts failed it returns (false, none, MAX_RETRIES).
C7_RetryAcotadoYResultado ==
    \A h \in Hilos :
        LET inv == Invocaciones(h)
            n == Len(inv)
        IN /\ n <= MAX_RETRIES
           /\ \A i \in 1..n : inv[i].n = i
           /\ \A i \in 1..(n - 1) : inv[i].res \notin {"ok", "sinclave"}
           /\ RetryRetornado(h) =>
                IF inv[n].res \in {"ok", "sinclave"}
                THEN /\ success[h]
                     /\ RespuestaRetry(h) = [kind |-> inv[n].res, id |-> inv[n].id]
                     /\ intentos[h] = n
                ELSE /\ n = MAX_RETRIES
                     /\ ~success[h]
                     /\ RespuestaRetry(h) = [kind |-> "none", id |-> 0]
                     /\ intentos[h] = MAX_RETRIES

\* The controller returned a Success reached at the third attempt.
C7_Witness ==
    \E h \in Hilos :
        /\ RetryRetornado(h)
        /\ Len(Invocaciones(h)) = 3
        /\ Invocaciones(h)[3].res = "ok"
        /\ intentos[h] = MAX_RETRIES
        /\ success[h]

----------------------------------------------------------------------------
\* C8: the controller waits RETRY_BASE_DELAY * 2^(i-1) after failed attempt i
\* when i < MAX_RETRIES, and waits only there: its history starts with an
\* attempt, every wait follows a failed attempt that was not the last one
\* allowed, every later attempt follows a wait, and nothing follows a Success
\* or the last failed attempt.  With MAX_RETRIES = 3 and base delay 1, two
\* failures followed by a Success give the waits 1 and 2.
C8_EsperasExponenciales ==
    \A h \in Hilos :
        LET hist == retry_hist[h]
            falla(e) == e.tipo = "intento" /\ e.res \notin {"ok", "sinclave"}
        IN /\ hist # <<>> => hist[1].tipo = "intento"
           /\ \A j \in 1..Len(hist) :
                /\ hist[j].tipo = "espera" =>
                     /\ j > 1
                     /\ falla(hist[j - 1])
                     /\ hist[j - 1].n < MAX_RETRIES
                     /\ hist[j].n = RETRY_BASE_DELAY * 2 ^ (hist[j - 1].n - 1)
                /\ (hist[j].tipo = "intento" /\ j > 1) =>
                     /\ hist[j - 1].tipo = "espera"
                     /\ hist[j].n = hist[j - 1 - 1].n + 1
                /\ (falla(hist[j]) /\ hist[j].n < MAX_RETRIES) =>
                     /\ j < Len(hist)
                     /\ hist[j + 1].tipo = "espera"
                /\ (hist[j].tipo = "intento" /\ (~falla(hist[j]) \/ hist[j].n = MAX_RETRIES))
                     => j = Len(hist)
           /\ ( /\ Len(hist) = 5
                /\ hist[5].res = "ok" )
              => <<hist[2].tipo, hist[2].n, hist[4].tipo, hist[4].n>>
                   = <<"espera", 1, "espera", 2>>

\* Attempts 1 and 2 failed, attempt 3 succeeded, and the controller returned.
C8_Witness ==
    \E h \in Hilos :
        /\ RetryRetornado(h)
        /\ Len(retry_hist[h]) = 5
        /\ retry_hist[h][5].res = "ok"
        /\ retry_hist[h][4].tipo = "espera"

----------------------------------------------------------------------------
\* C9: the first step that fails decides the outcome.  A failed catalog lookup
\* gives 404; create-purchase failing MAX_RETRIES times gives 409 with
\* attemptsUsed = MAX_RETRIES and no undo call; charge-payment failing
\* MAX_RETRIES times gives 409 with attemptsUsed = MAX_RETRIES after cancelling
\* the purchase and nothing else; a failed reserve-inventory gives 409; and
\* success=true with status 200 is returned exactly when all four steps
\* reported Success (each a payload carrying its identifier).
C9_ResultadoPorPrimerFallo ==
    \A h \in Hilos :
        Terminado(h) =>
            LET res == resultado[h]
                falla(status) == ~res.success /\ res.status = status /\ ~res.escapa
            IN /\ Reporte(h, "catalogo") = "falsy" => falla(404)
               /\ Reporte(h, "compras") = "falsy" =>
                    /\ falla(409)
                    /\ res.intentos = MAX_RETRIES
                    /\ Len(Invocaciones(h)) = MAX_RETRIES
                    /\ Deshechos(h) = <<>>
               /\ Reporte(h, "pagos") = "falsy" =>
                    /\ falla(409)
                    /\ res.intentos = MAX_RETRIES
                    /\ Deshechos(h) = << <<"comp_compras", CompraId(corrida[h])>> >>
               /\ Reporte(h, "inventario") = "falsy" => falla(409)
               /\ (res.success /\ res.status = 200)
                    <=> \A op \in {"catalogo", "compras", "pagos", "inventario"} :
                          Reporte(h, op) = "ok"
               /\ res.success <=> res.status = 200

\* An execution gave up on the payment after three attempts and cancelled
\* its purchase.
C9_Witness ==
    \E h \in Hilos :
        /\ Terminado(h)
        /\ Reporte(h, "pagos") = "falsy"
        /\ resultado[h].intentos = 3
        /\ Len(Deshechos(h)) = 1

----------------------------------------------------------------------------
\* C10: a fault raised inside the orchestration (a 200 answer whose body
\* lacks the key the saga reads, at any of the four steps) is caught by the
\* except clause: the execution undoes the steps whose identifiers it had
\* recorded, the refund before the cancellation, returns success=false with
\* status 500, and nothing is raised to the caller.
C10_FalloInesperado500 ==
    \A h \in Hilos :
        /\ ~resultado[h].escapa
        /\ ( /\ Terminado(h)
             /\ \E op \in {"catalogo", "compras", "pagos", "inventario"} :
                  Reporte(h, op) = "sinclave" )
           => /\ resultado[h].success = FALSE
              /\ resultado[h].status = 500
              /\ Deshechos(h) = Debidos(h)

\* The inventory answered 200 without a reservation identifier: the payment
\* was refunded, the purchase cancelled, and 500 returned.
C10_Witness ==
    \E h \in Hilos :
        /\ Terminado(h)
        /\ Reporte(h, "inventario") = "sinclave"
        /\ Len(Deshechos(h)) = 2
        /\ resultado[h].status = 500

----------------------------------------------------------------------------
\* The undo calls of the execution of thread h, with their answers.
LlamadasDeshacer(h) == SelectSeq(traza[h], EsDeshacer)

\* C11: compensation is best effort.  An undo call that was answered with a
\* non-200 status or not at all is not issued again, the undo calls that remain
\* owed are still issued after it, and the execution returns what its failure
\* returns anyway: success=false with 409 after a failed step, with 500 after
\* an unexpected fault, nothing raised to the caller.
C11_CompensacionMejorEsfuerzo ==
    \A h \in Hilos :
        LET us == LlamadasDeshacer(h) IN
        /\ \A i, j \in 1..Len(us) : us[i].op = us[j].op => i = j
        /\ ( /\ Terminado(h)
             /\ \E i \in 1..Len(us) : ~us[i].st200 )
           => /\ Deshechos(h) = Debidos(h)
              /\ ~resultado[h].escapa
              /\ ~resultado[h].success
              /\ resultado[h].status =
                   IF \E op \in {"catalogo", "compras", "pagos", "inventario"} :
                        Reporte(h, op) = "sinclave"
                   THEN StatusErrorInterno ELSE StatusConflicto

\* The refund was refused, the cancellation was issued all the same, and the
\* execution returned 409.
C11_Witness ==
    \E h \in Hilos :
        /\ Terminado(h)
        /\ Len(LlamadasDeshacer(h)) = 2
        /\ ~LlamadasDeshacer(h)[1].st200
        /\ LlamadasDeshacer(h)[2].op = "comp_compras"
        /\ resultado[h].status = StatusConflicto

----------------------------------------------------------------------------
\* How many times the execution of thread h went through the step op: one
\* HTTP call for the catalog and the inventory, one run of the retry
\* controller for the purchase and the payment.
Veces(h, op) == Cardinality({i \in 1..Len(traza[h]) : traza[h][i].op = op})

\* C12: within one execution the catalog lookup and reserve-inventory are
\* each issued at most once, whatever they answer, and create-purchase and
\* charge-payment at most MAX_RETRIES times each: every step is gone through
\* at most once, the retry controller runs only for a step not yet gone
\* through, and one run of it issues at most MAX_RETRIES calls, all of the
\* same operation.
C12_LlamadasAcotadas ==
    \A h \in Hilos :
        LET inv == Invocaciones(h) IN
        /\ \A op \in {"catalogo", "compras", "pagos", "inventario"} :
             Veces(h, op) <= 1
        /\ Len(inv) <= MAX_RETRIES
        /\ \A i \in 1..Len(inv) :
             /\ inv[i].op \in {"compras", "pagos"}
             /\ inv[i].op = inv[1].op
        /\ inv # <<>> =>
             Veces(h, inv[1].op) = IF RetryEnCurso(h) THEN 0 ELSE 1
        /\ Reporte(h, "catalogo") # "no" => pc[h] # "validar"
        /\ Reporte(h, "inventario") # "no" => pc[h] # "inventario"

\* An execution looked the product up once, called create-purchase
\* MAX_RETRIES times without Success and returned.
C12_Witness ==
    \E h \in Hilos :
        /\ Terminado(h)
        /\ Veces(h, "catalogo") = 1
        /\ Veces(h, "compras") = 1
        /\ Len(Invocaciones(h)) = MAX_RETRIES
        /\ Invocaciones(h)[MAX_RETRIES].op = "compras"
        /\ Reporte(h, "compras") = "falsy"

----------------------------------------------------------------------------
\* The forward step whose identifier is kept under key k, and the payload the
\* execution of thread h holds from it.
PasoDeClave(k) ==
    IF k = "compra_id" THEN "compras"
    ELSE IF k = "pago_id" THEN "pagos" ELSE "inventario"

PayloadDeClave(h, k) ==
    IF k = "compra_id" THEN compra_result[h]
    ELSE IF k = "pago_id" THEN pago_result[h] ELSE reserva_result[h]

\* C13: in every state of an execution, an identifier is present in the
\* dictionary of committed steps only if the forward step it belongs to has
\* already reported Success in that execution, and the value kept is the
\* identifier that step returned.
C13_RegistradoSoloTrasExito ==
    \A h \in Hilos :
        pc[h] # "idle" =>
            /\ DOMAIN transacciones_exitosas
                 \subseteq {"compra_id", "pago_id", "reserva_id"}
            /\ \A k \in DOMAIN transacciones_exitosas :
                 /\ Reporte(h, PasoDeClave(k)) = "ok"
                 /\ TieneClave(PayloadDeClave(h, k))
                 /\ transacciones_exitosas[k] = PayloadDeClave(h, k).id

\* The second execution on the instance has recorded its purchase and its
\* payment and is about to reserve the inventory.
C13_Witness ==
    \E h \in Hilos :
        /\ pc[h] = "inventario"
        /\ corrida[h] = 2
        /\ DOMAIN transacciones_exitosas = {"compra_id", "pago_id"}
        /\ transacciones_exitosas["pago_id"] = PagoId(2)

----------------------------------------------------------------------------
\* The identifiers the backends gave to the executions that ran on the
\* instance before the one of thread h.
IdsAnteriores(h) ==
    UNION { {CompraId(c), PagoId(c), ReservaId(c)} : c \in 1..(corrida[h] - 1) }

\* C14: the dictionary of committed steps is empty when an execution starts
\* validating the product, and when executions follow one another on the
\* instance no execution sees in it, or passes to an undo call, an identifier
\* committed by an earlier execution.
C14_ProgresoNuevoPorEjecucion ==
    \A h \in Hilos :
        /\ pc[h] = "validar" => transacciones_exitosas = Vacio
        /\ pc[h] # "idle" =>
             \A k \in DOMAIN transacciones_exitosas :
                 transacciones_exitosas[k] \notin IdsAnteriores(h)
        /\ \A i \in 1..Len(traza[h]) :
             EsDeshacer(traza[h][i]) => traza[h][i].arg \notin IdsAnteriores(h)

\* The second execution on the instance recorded its purchase, met a fault at
\* the payment step, and its except clause, asked to undo payment and purchase,
\* cancelled its own purchase and refunded nothing.
C14_Witness ==
    \E h \in Hilos :
        /\ Terminado(h)
        /\ corrida[h] = 2
        /\ origen[h] = "except"
        /\ Reporte(h, "pagos") = "sinclave"
        /\ Deshechos(h) = << <<"comp_compras", CompraId(2)>> >>

----------------------------------------------------------------------------
\* The position of a forward step in the saga.
Orden(op) ==
    IF op = "catalogo" THEN 1
    ELSE IF op = "compras" THEN 2
    ELSE IF op = "pagos" THEN 3 ELSE 4

\* Everything the execution of thread h has gone through so far is a forward
\* step that reported Success.
TodoExitoso(h) ==
    \A i \in 1..Len(traza[h]) :
        ~EsDeshacer(traza[h][i]) /\ traza[h][i].res = "ok"

\* C15: the forward steps are strictly sequential.  A forward step is gone
\* through only after all the steps before it, in the saga's order, reported
\* Success and before any undo call; charge-payment is called only after
\* create-purchase reported Success and with the purchaseId it returned;
\* reserve-inventory only after charge-payment reported Success; and no
\* forward call is issued once a step has failed for good or faulted.
C15_PasosEnSecuencia ==
    \A h \in Hilos :
        LET t == traza[h]
            inv == Invocaciones(h)
        IN /\ \A j \in 1..Len(t) :
                ~EsDeshacer(t[j]) =>
                    /\ Orden(t[j].op) = j
                    /\ \A i \in 1..(j - 1) : ~EsDeshacer(t[i]) /\ t[i].res = "ok"
                    /\ t[j].op = "pagos" => t[j].arg = compra_result[h].id
           /\ pc[h] \in {"compras", "pagos", "inventario"} =>
                /\ TodoExitoso(h)
                /\ Len(t) = Orden(pc[h]) - 1
           /\ \A i \in 1..Len(inv) :
                inv[i].op = "pagos" =>
                    /\ Reporte(h, "compras") = "ok"
                    /\ TieneClave(compra_result[h])
                    /\ inv[i].arg = compra_result[h].id
                    /\ inv[i].arg = CompraId(corrida[h])

\* The payment was charged at the second attempt, both attempts carrying the
\* purchaseId that create-purchase returned, and the inventory comes next.
C15_Witness ==
    \E h \in Hilos :
        /\ pc[h] = "inventario"
        /\ Len(Invocaciones(h)) = 2
        /\ Invocaciones(h)[1].op = "pagos"
        /\ Invocaciones(h)[1].arg = compra_result[h].id
        /\ Invocaciones(h)[2].res = "ok"
        /\ Reporte(h, "compras") = "ok"

----------------------------------------------------------------------------
\* The execution of thread h has entered _ejecutar_compensaciones.
Compensando(h) == origen[h] # "ninguno"

\* C16: an execution that returns success=true (with status 200) has issued
\* no refund and no cancellation, and its data carry exactly the purchaseId,
\* paymentId and reservationId that its three steps returned; an execution
\* that started compensating never returns success.
C16_ExitoSinCompensar ==
    \A h \in Hilos :
        /\ pc[h] \in {"comp", "comp_log", "comp_call"} => Compensando(h)
        /\ (Terminado(h) /\ Compensando(h)) => ~resultado[h].success
        /\ LlamadasDeshacer(h) # <<>> => Compensando(h)
        /\ (Terminado(h) /\ resultado[h].success) =>
             /\ resultado[h].status = 200
             /\ LlamadasDeshacer(h) = <<>>
             /\ TieneClave(compra_result[h])
             /\ TieneClave(pago_result[h])
             /\ TieneClave(reserva_result[h])
             /\ resultado[h].datos =
                  [compra_id |-> compra_result[h].id,
                   pago_id |-> pago_result[h].id,
                   reserva_id |-> reserva_result[h].id]
             /\ resultado[h].datos =
                  [compra_id |-> CompraId(corrida[h]),
                   pago_id |-> PagoId(corrida[h]),
                   reserva_id |-> ReservaId(corrida[h])]

\* An execution returned success with the three identifiers of its run.
C16_Witness ==
    \E h \in Hilos :
        /\ Terminado(h)
        /\ resultado[h].success
        /\ resultado[h].datos.pago_id = PagoId(corrida[h])
        /\ Veces(h, "inventario") = 1
        /\ ~Compensando(h)

----------------------------------------------------------------------------
\* C17: each undo operation is called at most once in an execution,
\* refund-payment at most once and cancel-purchase at most once, also when a
\* fault is raised while the execution is already compensating and the except
\* clause compensates again.
C17_DeshacerUnaVez ==
    \A h \in Hilos :
        LET us == LlamadasDeshacer(h) IN
        \A i, j \in 1..Len(us) : us[i].op = us[j].op => i = j

\* What survives of it when executions interleave: an execution may call an
\* undo operation a second time, but never with the identifier it already
\* passed (an identifier is written once, and the KeyError that sends a
\* compensating execution to the except clause comes from a reset that
\* removed every identifier it had used so far).
SinDeshacerRepetido ==
    \A h \in Hilos :
        LET us == LlamadasDeshacer(h) IN
        \A i, j \in 1..Len(us) :
            (us[i].op = us[j].op /\ us[i].arg = us[j].arg) => i = j

----------------------------------------------------------------------------
\* C18: a forward step is a Failure only on a non-200 answer or a transport
\* error: once an attempt of create-purchase or charge-payment was answered
\* with status 200, the retry controller issues no further attempt of that
\* step, whatever the body of the answer.
C18_SinReintentoTras200 ==
    \A h \in Hilos :
        LET inv == Invocaciones(h) IN
        \A i \in 1..(Len(inv) - 1) : ~inv[i].st200

====
